---- MODULE Spec2Model ----
(***************************************************************************)
(* Streaming transcript path of the chat demo application.                 *)
(*                                                                         *)
(*   server  : app.post('/api/chat') of the backend (both server files    *)
(*             kept in the repository, selected by `ver`)                  *)
(*   client  : sendMessageWithConversation / handleStop of app/page.tsx    *)
(*             (both page versions, selected by `ver`)                     *)
(*   reader  : readJsonlFile and the /api/conversations file loop          *)
(*                                                                         *)
(* Text is a sequence of one-character strings, so that concatenation,     *)
(* emptiness ("" is falsy in JavaScript) and prefixes are computed.        *)
(***************************************************************************)
EXTENDS Integers, Sequences, FiniteSets, TLC

\* ---------------------------------------------------------------- bounds
\* Upstream envelopes consumed by one chat request of the page.
MaxEvents == 3
\* Upstream envelopes consumed by one chat request when the handler is checked alone.
MaxServerEvents == 3
\* Upstream envelopes of one chat request when upstream keeps to its protocol.
MaxValidEvents == 6
\* Lines of one log file.
MaxLines == 3
\* Log files of the project folder one listing request reads.
MaxFiles == 3
\* Upstream envelopes consumed by each of two concurrent chat requests.
MaxConcEvents == 2
\* Frames written and not yet read by the page when the next envelope is taken
\* (while the page is still reading).
MaxBacklog == 0
\* A response body of the chunked read has at most this many frames before its
\* terminal frame.
MaxChunkFrames == 2
\* reader.read() delivers at most this many bytes at once: a whole frame (six
\* bytes) and the start of the next.
MaxChunkLen == 7

\* ---------------------------------------------------------------- input domains
Versions == {1, 2}
Indices == {0, 1}
Frags == {<<"a">>, <<"b">>}
ToolNames == {"Read"}
ToolIds == {"t1", "t2"}
ToolInputs == {"in1"}
SessionIds == {"s1", "s2"}

\* JavaScript undefined / null for string-valued fields (falsy).
Undefined == "undefined"
NoText == <<>>
Null == [type |-> "null"]

\* ---------------------------------------------------------------- upstream envelopes
\* One envelope yielded by the SDK query iterator.  `type` is sdkMsg.type,
\* `etype` is sdkMsg.event.type for a stream_event; `btype` is
\* content_block.type (start) or delta.type (delta).
Envelope(type, etype, index, btype, text, name, id, input, subtype, sid) ==
    [type |-> type, etype |-> etype, index |-> index, btype |-> btype, text |-> text,
     name |-> name, id |-> id, input |-> input, subtype |-> subtype, session_id |-> sid]

SidChoices == SessionIds \cup {Undefined}

StartTextEvents ==
    {Envelope("stream_event", "content_block_start", i, "text", NoText,
              Undefined, Undefined, Undefined, Undefined, s) :
        i \in Indices, s \in SidChoices}

StartToolEvents ==
    {Envelope("stream_event", "content_block_start", x[1], "tool_use", NoText,
              x[2], x[3], x[4], Undefined, x[5]) :
        x \in Indices \X ToolNames \X ToolIds \X ToolInputs \X SidChoices}

TextDeltaEvents ==
    {Envelope("stream_event", "content_block_delta", x[1], "text_delta", x[2],
              Undefined, Undefined, Undefined, Undefined, x[3]) :
        x \in Indices \X Frags \X SidChoices}

\* input_json_delta: the incremental tool input the SDK streams for a tool block.
JsonDeltaEvents ==
    {Envelope("stream_event", "content_block_delta", i, "input_json_delta", NoText,
              Undefined, Undefined, Undefined, Undefined, s) :
        i \in Indices, s \in SidChoices}

StopEvents ==
    {Envelope("stream_event", "content_block_stop", i, Undefined, NoText,
              Undefined, Undefined, Undefined, Undefined, s) :
        i \in Indices, s \in SidChoices}

\* What a result message carries besides its type: subtype, is_error, num_turns,
\* total_cost_usd, duration_ms and the result string (success) or the errors.
ResultPayloads ==
    {[subtype |-> "success", is_error |-> FALSE, num_turns |-> 1, total_cost_usd |-> 3,
      duration_ms |-> 20, result |-> <<"a">>, errors |-> Undefined],
     [subtype |-> "success", is_error |-> TRUE, num_turns |-> 2, total_cost_usd |-> 0,
      duration_ms |-> 21, result |-> NoText, errors |-> Undefined],
     [subtype |-> "error_during_execution", is_error |-> TRUE, num_turns |-> 1,
      total_cost_usd |-> 3, duration_ms |-> 21, result |-> Undefined, errors |-> <<"e">>],
     [subtype |-> "error_max_turns", is_error |-> TRUE, num_turns |-> 2,
      total_cost_usd |-> 0, duration_ms |-> 20, result |-> Undefined, errors |-> <<>>]}

ResultEnvelope(p, s) ==
    [f \in {"is_error", "num_turns", "total_cost_usd", "duration_ms", "result", "errors"}
        |-> p[f]]
    @@ Envelope("result", Undefined, 0, Undefined, NoText,
                Undefined, Undefined, Undefined, p.subtype, s)

ResultEvents == {ResultEnvelope(p, s) : p \in ResultPayloads, s \in SidChoices}

\* A stream_event whose event lacks the member the branch dereferences:
\* content_block_start without content_block, content_block_delta without delta.
MalformedEvents ==
    {Envelope("stream_event", et, i, "missing", NoText,
              Undefined, Undefined, Undefined, Undefined, s) :
        et \in {"content_block_start", "content_block_delta"}, i \in Indices, s \in SidChoices}

\* system / assistant / user envelopes: no branch of the loop handles them.
OtherEvents ==
    {Envelope("system", Undefined, 0, Undefined, NoText,
              Undefined, Undefined, Undefined, Undefined, s) : s \in SidChoices}

\* ---------------------------------------------------------------- frames
SessionFrame(s) == [type |-> "session_id", sessionId |-> s, done |-> FALSE]
TextBlockStartFrame(i) == [type |-> "text_block_start", blockIndex |-> i, done |-> FALSE]
TextFrame(c, i) == [type |-> "text", content |-> c, blockIndex |-> i, done |-> FALSE]
TextBlockEndFrame(i) == [type |-> "text_block_end", blockIndex |-> i, done |-> FALSE]

ToolUseFrameSwapped(msg) ==
    [type |-> "tool_use", tool |-> msg.id, toolUseId |-> msg.name,
     blockIndex |-> msg.index, done |-> FALSE]

ToolUseFrame(msg) ==
    [type |-> "tool_use", tool |-> msg.name, toolUseId |-> msg.id,
     blockIndex |-> msg.index, done |-> FALSE]

\* resultInfo with isError derived from the subtype instead of copied.
ResultFrameDerived(msg) ==
    [type |-> "result", done |-> TRUE, isError |-> (msg.subtype # "success"),
     numTurns |-> msg.num_turns, totalCostUsd |-> msg.total_cost_usd,
     durationMs |-> msg.duration_ms]
    @@ (IF msg.subtype = "success" THEN [result |-> msg.result]
        ELSE [errors |-> msg.errors, subtype |-> msg.subtype])

\* resultInfo as JSON.stringify writes it: a field that was never assigned is
\* not in the frame.
ResultFrame(msg) ==
    [type |-> "result", done |-> TRUE, isError |-> msg.is_error, numTurns |-> msg.num_turns,
     totalCostUsd |-> msg.total_cost_usd, durationMs |-> msg.duration_ms]
    @@ (IF msg.subtype = "success" THEN [result |-> msg.result]
        ELSE [errors |-> msg.errors, subtype |-> msg.subtype])

ErrorFrame == [type |-> "error", error |-> "message", done |-> TRUE]

\* ---------------------------------------------------------------- state
VARIABLES
    ver,               \* which of the two kept versions of server and page runs
    spc,               \* position of the /api/chat handler
    messageCount,      \* let messageCount
    frames,            \* data frames written to res, in write order
    currentSessionId,  \* let currentSessionId
    currentTextBlock,  \* let currentTextBlock
    textBlockIndex,    \* let textBlockIndex
    fullResponse,      \* let fullResponse
    endedBy,           \* which res.end() ran: "result", "exhausted", "thrown"
    upBlocks,          \* history: blocks upstream has opened, in first-open order
    cpc,               \* position of sendMessageWithConversation
    cread,             \* frames the reader has delivered to the page
    stream,            \* locals of the read loop: fullContent, contentBlocks, ...
    isLoading,         \* useState isLoading
    streamingContent,  \* useState streamingContent
    pendingUserMessage,\* useState pendingUserMessage (TRUE: a message is pending)
    abortRef,          \* abortControllerRef.current is set
    reloaded,          \* reloadConversations() ran for this turn
    seenAtStop,        \* history: fullResponse when handleStop aborted, <<>> before
    protocol,          \* "any": upstream may send any envelope; "valid": it keeps to its protocol
    upText,            \* history: per slot, the text_delta fragments upstream sent, concatenated
    upSession,         \* history: first session id an envelope carried, and the frames written before it
    upResult,          \* history: the result message upstream yielded, Null before
    upMalformed,       \* history: malformed stream events upstream has yielded
    logFile,           \* the lines of the log file being read
    fileQueue,         \* the files of the folder the file loop has not reached yet
    rpc,               \* position of readJsonlFile: "idle", "reading", "closed", "listed"
    reader,            \* locals of readJsonlFile: lineNum, firstEntry, messages
    conversations,     \* const conversations of the listing endpoint
    prevRead,          \* history: what an earlier request read from the same file, Null if none
    reqs,              \* two concurrent /api/chat requests: the locals of each invocation
    wire,              \* the bytes of the response body that reader.read() has not delivered yet
    reqMessage         \* history: what req.body.message of the chat request was, "none" before

serverVars == <<spc, messageCount, frames, currentSessionId, currentTextBlock,
                textBlockIndex, fullResponse, endedBy, upBlocks, upText, upSession, upResult,
                upMalformed>>

clientVars == <<cpc, cread, stream, isLoading, streamingContent,
                pendingUserMessage, abortRef, reloaded, seenAtStop>>

logVars == <<logFile, fileQueue, rpc, reader, conversations, prevRead>>

vars == <<ver, protocol, reqs, wire, reqMessage, serverVars, clientVars, logVars>>

\* ---------------------------------------------------------------- upstream history
\* What upstream has said so far, kept per block in first-open order.
UpBlock(msg) ==
    [index |-> msg.index, kind |-> msg.btype, text |-> NoText, name |-> msg.name,
     id |-> msg.id, input |-> msg.input, open |-> TRUE]

\* Position of the latest block of slot i that is still open, 0 if none.
OpenPos(blocks, i) ==
    LET S == {k \in 1..Len(blocks) : blocks[k].index = i /\ blocks[k].open}
    IN  IF S = {} THEN 0 ELSE CHOOSE k \in S : \A j \in S : j <= k

UpAfter(blocks, msg) ==
    IF msg.type # "stream_event" \/ msg.btype = "missing" THEN blocks
    ELSE IF msg.etype = "content_block_start" THEN Append(blocks, UpBlock(msg))
    ELSE LET p == OpenPos(blocks, msg.index) IN
         IF p = 0 THEN blocks
         ELSE IF msg.etype = "content_block_stop"
              THEN [blocks EXCEPT ![p].open = FALSE]
         ELSE IF msg.btype = "text_delta" /\ blocks[p].kind = "text"
              THEN [blocks EXCEPT ![p].text = @ \o msg.text]
         ELSE blocks

\* ---------------------------------------------------------------- server: /api/chat
\* Capture the session id from the first envelope that carries one.
SessionFramesOnChange(msg, cur) ==
    IF msg.session_id # Undefined /\ msg.session_id # cur
    THEN <<SessionFrame(msg.session_id)>>
    ELSE <<>>

SessionFrames(msg, cur) ==
    IF msg.session_id # Undefined /\ cur = Undefined
    THEN <<SessionFrame(msg.session_id)>>
    ELSE <<>>

SessionAfter(msg, cur) ==
    IF msg.session_id # Undefined /\ cur = Undefined THEN msg.session_id ELSE cur

\* Frames of a content_block_start.
StartFrames(v, msg, ctb, tbi) ==
    LET flush == IF v = 2 /\ ctb # NoText THEN <<TextBlockEndFrame(tbi)>> ELSE <<>>
    IN  IF msg.btype = "text" THEN flush \o <<TextBlockStartFrame(msg.index)>>
        ELSE IF msg.btype = "tool_use" THEN flush \o <<ToolUseFrame(msg)>>
        ELSE <<>>

\* Frames of a content_block_delta.
DeltaFramesAccumulated(msg, ctb) ==
    IF msg.btype = "text_delta" THEN <<TextFrame(ctb \o msg.text, msg.index)>> ELSE <<>>

DeltaFrames(msg, ctb) ==
    IF msg.btype = "text_delta" THEN <<TextFrame(msg.text, msg.index)>> ELSE <<>>

\* Frames of a content_block_stop.
StopFrames(v, msg, ctb) ==
    IF v = 1 \/ ctb # NoText THEN <<TextBlockEndFrame(msg.index)>> ELSE <<>>

\* The upstream protocol: a slot is opened only while it is not open, a delta
\* or stop goes to an open slot (text_delta to text, input_json_delta to a tool),
\* the result comes when every slot is closed, and every envelope carries the
\* session id of the turn.
ValidEvent(blocks, msg) ==
    /\ msg.session_id = "s1"
    /\ msg.type = "stream_event" =>
         LET p == OpenPos(blocks, msg.index) IN
         CASE msg.etype = "content_block_start" -> p = 0
           [] msg.etype = "content_block_stop" -> p # 0
           [] OTHER -> /\ p # 0
                       /\ (msg.btype = "text_delta") = (blocks[p].kind = "text")
    /\ msg.type = "result" => \A k \in 1..Len(blocks) : ~blocks[k].open

Allowed(msg) == protocol = "any" \/ ValidEvent(upBlocks, msg)

Budget ==
    IF protocol = "valid" THEN MaxValidEvents
    ELSE IF cpc = "detached" THEN MaxServerEvents ELSE MaxEvents

Streaming ==
    /\ spc = "streaming"
    /\ messageCount < Budget
    /\ cpc = "reading" => Len(frames) - cread <= MaxBacklog

\* What req.body.message is: a non-empty string, '', absent, or a number.
MessageKinds == {"string", "empty", "undefined", "number"}

\* message.substring(0, 50) in the log line throws for a message that is not a
\* string; JSON.parse(fs.readFileSync(PERMISSIONS_FILE)) throws when the file is
\* missing or is not JSON.  Both run before the try.
ThrowsBeforeTry(kind, permissionsOk) ==
    \/ kind \in {"undefined", "number"}
    \/ kind = "string" /\ ~permissionsOk

\* `!message || typeof message !== 'string'`
InvalidMessage(kind) == kind # "string"

\* The exception leaves the async handler: nothing is written, res is not ended.
ChatThrowsBeforeTry ==
    /\ spc = "idle"
    /\ cpc # "idle"
    /\ \E kind \in MessageKinds, permissionsOk \in BOOLEAN :
        /\ ThrowsBeforeTry(kind, permissionsOk)
        /\ reqMessage' = kind
    /\ spc' = "threw"
    /\ UNCHANGED <<ver, protocol, reqs, wire, logVars, upText, upSession, upResult, upMalformed,
                   messageCount, frames, currentSessionId, currentTextBlock,
                   textBlockIndex, fullResponse, endedBy, upBlocks, clientVars>>

\* `if (!message || typeof message !== 'string')`: status 400 with a JSON body.
ChatInvalidMessage ==
    /\ spc = "idle"
    /\ cpc # "idle"
    /\ \E kind \in MessageKinds :
        /\ ~ThrowsBeforeTry(kind, TRUE)
        /\ InvalidMessage(kind)
        /\ reqMessage' = kind
    /\ spc' = "rejected"
    /\ UNCHANGED <<ver, protocol, reqs, wire, logVars, upText, upSession, upResult, upMalformed,
                   messageCount, frames, currentSessionId, currentTextBlock,
                   textBlockIndex, fullResponse, endedBy, upBlocks, clientVars>>

\* The message is a non-empty string and the permissions parse: query() has
\* been called and the for-await loop entered.
ChatStart ==
    /\ spc = "idle"
    /\ cpc # "idle"
    /\ spc' = "streaming"
    /\ reqMessage' = "string"
    /\ UNCHANGED <<ver, protocol, reqs, wire, logVars, upText, upSession, upResult, upMalformed, messageCount, frames, currentSessionId, currentTextBlock,
                   textBlockIndex, fullResponse, endedBy, upBlocks, clientVars>>

Consume(msg) ==
    /\ Allowed(msg)
    /\ messageCount' = messageCount + 1
    /\ currentSessionId' = SessionAfter(msg, currentSessionId)
    /\ upBlocks' = UpAfter(upBlocks, msg)
    /\ upText' = IF msg.type = "stream_event" /\ msg.btype = "text_delta"
                 THEN [upText EXCEPT ![msg.index] = @ \o msg.text] ELSE upText
    /\ upSession' = IF msg.session_id # Undefined /\ upSession = Null
                    THEN [type |-> "seen", sid |-> msg.session_id, before |-> Len(frames)]
                    ELSE upSession
    /\ upResult' = IF msg.type = "result" THEN msg ELSE upResult
    /\ upMalformed' = IF msg.btype = "missing" THEN upMalformed + 1 ELSE upMalformed
    /\ UNCHANGED <<ver, protocol, reqs, wire, reqMessage, logVars, clientVars>>

OnContentBlockStart ==
    /\ Streaming
    /\ \E msg \in StartTextEvents \cup StartToolEvents :
        /\ Consume(msg)
        /\ frames' = frames \o SessionFrames(msg, currentSessionId)
                            \o StartFrames(ver, msg, currentTextBlock, textBlockIndex)
        /\ textBlockIndex' = IF msg.btype = "text" THEN msg.index ELSE textBlockIndex
        /\ currentTextBlock' = IF ver = 2 THEN NoText ELSE currentTextBlock
    /\ UNCHANGED <<spc, fullResponse, endedBy>>

OnContentBlockDelta ==
    /\ Streaming
    /\ \E msg \in TextDeltaEvents \cup JsonDeltaEvents :
        /\ Consume(msg)
        /\ frames' = frames \o SessionFrames(msg, currentSessionId)
                            \o DeltaFrames(msg, currentTextBlock)
        /\ currentTextBlock' = IF msg.btype = "text_delta"
                               THEN currentTextBlock \o msg.text ELSE currentTextBlock
        /\ fullResponse' = IF msg.btype = "text_delta"
                           THEN fullResponse \o msg.text ELSE fullResponse
    /\ UNCHANGED <<spc, textBlockIndex, endedBy>>

OnContentBlockStop ==
    /\ Streaming
    /\ \E msg \in StopEvents :
        /\ Consume(msg)
        /\ frames' = frames \o SessionFrames(msg, currentSessionId)
                            \o StopFrames(ver, msg, currentTextBlock)
    /\ currentTextBlock' = NoText
    /\ UNCHANGED <<spc, textBlockIndex, fullResponse, endedBy>>

\* event.content_block.type or event.delta.type is read from undefined: the
\* TypeError leaves the loop and the catch writes the error frame and ends.
OnMalformedEvent ==
    /\ Streaming
    /\ \E msg \in MalformedEvents :
        /\ Consume(msg)
        /\ frames' = frames \o SessionFrames(msg, currentSessionId) \o <<ErrorFrame>>
    /\ spc' = "ended"
    /\ endedBy' = "thrown"
    /\ UNCHANGED <<currentTextBlock, textBlockIndex, fullResponse>>

\* An envelope no branch handles: only the session capture applies.
OnOtherMessage ==
    /\ Streaming
    /\ \E msg \in OtherEvents :
        /\ Consume(msg)
        /\ frames' = frames \o SessionFrames(msg, currentSessionId)
    /\ UNCHANGED <<spc, currentTextBlock, textBlockIndex, fullResponse, endedBy>>

\* Where the handler stands after the branch of an envelope: the result branch
\* ends with `break`, which leaves the loop for res.end().
PcAfterWithoutBreak(msg) == "streaming"

PcAfter(msg) == IF msg.type = "result" THEN "ended" ELSE "streaming"

\* result: write the result frame, break, res.end().
OnResult ==
    /\ Streaming
    /\ \E msg \in ResultEvents :
        /\ Consume(msg)
        /\ frames' = frames \o SessionFrames(msg, currentSessionId) \o <<ResultFrame(msg)>>
        /\ spc' = PcAfter(msg)
    /\ endedBy' = "result"
    /\ UNCHANGED <<currentTextBlock, textBlockIndex, fullResponse>>

\* The iterator is exhausted without a result: the loop exits and res.end() runs.
UpstreamEnd ==
    /\ spc = "streaming"
    /\ spc' = "ended"
    /\ endedBy' = "exhausted"
    /\ UNCHANGED <<ver, protocol, reqs, wire, reqMessage, logVars, upText, upSession, upResult, upMalformed, messageCount, frames, currentSessionId,
                   currentTextBlock, textBlockIndex, fullResponse, upBlocks, clientVars>>

\* The iterator (or query itself) throws: the catch writes the error frame and ends.
UpstreamThrow ==
    /\ spc = "streaming"
    /\ frames' = Append(frames, ErrorFrame)
    /\ spc' = "ended"
    /\ endedBy' = "thrown"
    /\ UNCHANGED <<ver, protocol, reqs, wire, reqMessage, logVars, upText, upSession, upResult, upMalformed, messageCount, currentSessionId,
                   currentTextBlock, textBlockIndex, fullResponse, upBlocks, clientVars>>

\* ---------------------------------------------------------------- server: two requests
Requests == {1, 2}

\* The locals of one invocation of the handler, the frames written to its res,
\* and (history) the envelopes its own query() has yielded.
InitLocals ==
    [spc |-> "idle", messageCount |-> 0, frames |-> <<>>, currentSessionId |-> Undefined,
     currentTextBlock |-> NoText, textBlockIndex |-> 0, fullResponse |-> NoText,
     endedBy |-> "none", fed |-> <<>>]

\* The locals request r works on if currentSessionId were one variable of the
\* module instead of a local of the invocation.
LocalsWithSharedSession(rs, r) ==
    [rs[r] EXCEPT !.currentSessionId = rs[1].currentSessionId]

\* The locals request r works on: those its own invocation declared.
Locals(rs, r) == rs[r]

\* The frames of the branch of the loop body that handles msg.
BodyFrames(v, st, msg) ==
    IF msg.type = "result" THEN <<ResultFrame(msg)>>
    ELSE IF msg.type # "stream_event" THEN <<>>
    ELSE IF msg.etype = "content_block_start"
         THEN StartFrames(v, msg, st.currentTextBlock, st.textBlockIndex)
    ELSE IF msg.etype = "content_block_delta" THEN DeltaFrames(msg, st.currentTextBlock)
    ELSE StopFrames(v, msg, st.currentTextBlock)

\* One pass of the loop body over msg, on the locals st.
HandlerStep(v, st, msg) ==
    LET start == msg.type = "stream_event" /\ msg.etype = "content_block_start"
        delta == msg.type = "stream_event" /\ msg.etype = "content_block_delta"
                 /\ msg.btype = "text_delta"
        stop == msg.type = "stream_event" /\ msg.etype = "content_block_stop"
    IN  [st EXCEPT
            !.messageCount = @ + 1,
            !.currentSessionId = SessionAfter(msg, st.currentSessionId),
            !.frames = @ \o SessionFrames(msg, st.currentSessionId) \o BodyFrames(v, st, msg),
            !.textBlockIndex = IF start /\ msg.btype = "text" THEN msg.index ELSE @,
            !.currentTextBlock = IF (start /\ v = 2) \/ stop THEN NoText
                                 ELSE IF delta THEN @ \o msg.text ELSE @,
            !.fullResponse = IF delta THEN @ \o msg.text ELSE @,
            !.spc = IF msg.type = "result" THEN "ended" ELSE @,
            !.endedBy = IF msg.type = "result" THEN "result" ELSE @]

\* The envelopes the two upstream queries yield: slot 0, one tool, a success
\* result, each envelope with one of the two session ids.
ConcEvents ==
    {e \in StartTextEvents \cup StartToolEvents \cup TextDeltaEvents \cup StopEvents
            \cup ResultEvents :
        /\ e.index = 0
        /\ e.session_id # Undefined
        /\ e.id \in {Undefined, "t1"}
        /\ e.type = "result" => (e.subtype = "success" /\ ~e.is_error)}

ConcOthers == UNCHANGED <<ver, protocol, wire, reqMessage, serverVars, clientVars, logVars>>

ConcStart(r) ==
    /\ reqs[r].spc = "idle"
    /\ reqs' = [reqs EXCEPT ![r].spc = "streaming"]
    /\ ConcOthers

ConcEvent(r) ==
    /\ reqs[r].spc = "streaming"
    /\ reqs[r].messageCount < MaxConcEvents
    /\ \E msg \in ConcEvents :
          reqs' = [reqs EXCEPT ![r] =
                      [HandlerStep(ver, Locals(reqs, r), msg) EXCEPT !.fed = Append(@, msg)]]
    /\ ConcOthers

ConcEnd(r) ==
    /\ reqs[r].spc = "streaming"
    /\ reqs' = [reqs EXCEPT ![r].spc = "ended", ![r].endedBy = "exhausted"]
    /\ ConcOthers

ConcThrow(r) ==
    /\ reqs[r].spc = "streaming"
    /\ reqs' = [reqs EXCEPT ![r].spc = "ended", ![r].endedBy = "thrown",
                            ![r].frames = Append(@, ErrorFrame)]
    /\ ConcOthers

\* ---------------------------------------------------------------- client: page.tsx
TextBlock(c) == [type |-> "text", content |-> c]
ToolBlock(data) == [type |-> "tool", tool |-> data.tool, toolUseId |-> data.toolUseId]

\* The text the page adds to fullContent for a tool: `\n\n[Using ${tool}]\n\n`.
ToolMarker(tool) == <<"[", tool, "]">>

InitStream ==
    [fullContent |-> NoText, contentBlocks |-> <<>>,
     currentTextContent |-> NoText, currentBlockIndex |-> -1]

\* contentBlocks after "finish any current text block".
Flushed(st) ==
    IF st.currentTextContent # NoText
    THEN Append(st.contentBlocks, TextBlock(st.currentTextContent))
    ELSE st.contentBlocks

\* A frame with data.error set, or of type session_id, changes nothing.
Skipped(data) == data.type = "error" \/ data.type = "session_id"

\* The locals after one parsed `data: ` line (everything before the done test).
ApplyFrame(st, data) ==
    IF Skipped(data) THEN st
    ELSE IF data.type = "text_block_start"
         THEN [st EXCEPT !.currentBlockIndex = data.blockIndex,
                         !.currentTextContent = NoText]
    ELSE IF data.type = "text" /\ data.content # NoText
         THEN [st EXCEPT !.currentTextContent = @ \o data.content,
                         !.fullContent = @ \o data.content]
    ELSE IF data.type = "text_block_end"
         THEN [st EXCEPT !.contentBlocks = Flushed(st),
                         !.currentTextContent = NoText]
    ELSE IF data.type = "tool_use"
         THEN [st EXCEPT !.contentBlocks = Append(Flushed(st), ToolBlock(data)),
                         !.currentTextContent = NoText,
                         !.fullContent = @ \o ToolMarker(data.tool)]
    ELSE st

\* `data.type === 'result' || data.done`
IsDone(data) == (~Skipped(data)) /\ (data.type = "result" \/ data.done)

\* sendMessageWithConversation up to the fetch.
SendMessage ==
    /\ cpc = "idle"
    /\ cpc' = "reading"
    /\ pendingUserMessage' = TRUE
    /\ isLoading' = TRUE
    /\ streamingContent' = NoText
    /\ abortRef' = TRUE
    /\ UNCHANGED <<ver, protocol, reqs, wire, reqMessage, logVars, serverVars, cread, stream, reloaded, seenAtStop>>

\* One `data: ` line read, parsed and applied.
ClientFrame ==
    /\ cpc = "reading"
    /\ cread < Len(frames)
    /\ LET data == frames[cread + 1]
           st == ApplyFrame(stream, data)
       IN  /\ cread' = cread + 1
           /\ stream' = st
           /\ IF IsDone(data)
              THEN /\ reloaded' = TRUE
                   /\ isLoading' = FALSE
                   /\ streamingContent' = NoText
                   /\ pendingUserMessage' = FALSE
              ELSE /\ streamingContent' =
                        IF st.fullContent # stream.fullContent
                        THEN st.fullContent ELSE streamingContent
                   /\ UNCHANGED <<reloaded, isLoading, pendingUserMessage>>
    /\ UNCHANGED <<ver, protocol, reqs, wire, reqMessage, logVars, serverVars, cpc, abortRef, seenAtStop>>

\* reader.read() reports done: the loop breaks and the function returns.
ClientStreamDone ==
    /\ cpc = "reading"
    /\ spc = "ended"
    /\ cread = Len(frames)
    /\ cpc' = "returned"
    /\ UNCHANGED <<ver, protocol, reqs, wire, reqMessage, logVars, serverVars, cread, stream, isLoading, streamingContent,
                   pendingUserMessage, abortRef, reloaded, seenAtStop>>

\* handleStop: abort the fetch; the pending read rejects with AbortError and the
\* catch returns without touching the page state.
HandleStop ==
    /\ abortRef
    /\ abortRef' = FALSE
    /\ isLoading' = FALSE
    /\ cpc' = IF cpc = "reading" THEN "aborted" ELSE cpc
    /\ seenAtStop' = IF cpc = "reading" THEN fullResponse ELSE seenAtStop
    /\ UNCHANGED <<ver, protocol, reqs, wire, reqMessage, logVars, serverVars, cread, stream, streamingContent,
                   pendingUserMessage, reloaded>>

ServerInit ==
    /\ spc = "idle"
    /\ messageCount = 0
    /\ frames = <<>>
    /\ currentSessionId = Undefined
    /\ currentTextBlock = NoText
    /\ textBlockIndex = 0
    /\ fullResponse = NoText
    /\ endedBy = "none"
    /\ upBlocks = <<>>
    /\ upText = [i \in Indices |-> NoText]
    /\ upSession = Null
    /\ upResult = Null
    /\ upMalformed = 0
    /\ reqMessage = "none"

ClientInit(pc) ==
    /\ cpc = pc
    /\ cread = 0
    /\ stream = InitStream
    /\ isLoading = FALSE
    /\ streamingContent = NoText
    /\ pendingUserMessage = FALSE
    /\ abortRef = FALSE
    /\ reloaded = FALSE
    /\ seenAtStop = <<>>
    /\ wire = <<>>

\* ---------------------------------------------------------------- page: the read loop on chunks
\* The response body as bytes.  A frame is written as `data: ${JSON}\n\n`; the
\* prefix and the JSON text are cut in two pieces each, so that a chunk boundary
\* can fall inside either of them.
WireByte(c, data) == [c |-> c, data |-> data]

Newline == WireByte("nl", Null)

\* res.write(':\n\n') before the try.
Comment == <<WireByte("colon", Null), Newline, Newline>>

Wire(f) ==
    <<WireByte("da", Null), WireByte("ta: ", Null),
      WireByte("json1", f), WireByte("json2", f), Newline, Newline>>

RECURSIVE WireOf(_)
WireOf(fs) == IF fs = <<>> THEN <<>> ELSE Wire(Head(fs)) \o WireOf(Tail(fs))

RECURSIVE SplitLines(_)
\* chunk.split('\n')
SplitLines(chunk) ==
    LET S == {k \in 1..Len(chunk) : chunk[k] = Newline}
    IN  IF S = {} THEN <<chunk>>
        ELSE LET k == CHOOSE i \in S : \A j \in S : i <= j
             IN  <<SubSeq(chunk, 1, k - 1)>> \o SplitLines(SubSeq(chunk, k + 1, Len(chunk)))

\* line.startsWith('data: ')
StartsWithData(line) == Len(line) >= 2 /\ line[1].c = "da" /\ line[2].c = "ta: "

\* line.slice(6)
JsonText(line) == SubSeq(line, 3, Len(line))

\* JSON.parse returns for the whole text of one frame and throws a SyntaxError
\* for the empty string and for a part of the text.
Parses(text) ==
    /\ Len(text) = 2
    /\ text[1].c = "json1"
    /\ text[2].c = "json2"
    /\ text[1].data = text[2].data

Parsed(text) == text[1].data

\* The page state the read loop works on; cread counts the data lines parsed.
PageState ==
    [stream |-> stream, isLoading |-> isLoading, streamingContent |-> streamingContent,
     pendingUserMessage |-> pendingUserMessage, reloaded |-> reloaded,
     cread |-> cread, pc |-> cpc]

\* The catch for an error that is not an AbortError.
Caught(cs) ==
    [cs EXCEPT !.reloaded = TRUE, !.isLoading = FALSE, !.streamingContent = NoText,
               !.pendingUserMessage = FALSE, !.pc = "caught"]

RECURSIVE OnLines(_, _)
\* `for (const line of lines)`: the state after the lines of one chunk.
OnLines(cs, lines) ==
    IF lines = <<>> THEN cs
    ELSE LET line == Head(lines) IN
         IF ~StartsWithData(line) THEN OnLines(cs, Tail(lines))
         ELSE IF ~Parses(JsonText(line)) THEN Caught(cs)
         ELSE LET data == Parsed(JsonText(line))
                  st == ApplyFrame(cs.stream, data)
                  read == [cs EXCEPT !.cread = @ + 1]
              IN  IF "error" \in DOMAIN data THEN read
                  ELSE IF IsDone(data)
                       THEN [read EXCEPT !.stream = st, !.reloaded = TRUE,
                                         !.isLoading = FALSE,
                                         !.streamingContent = NoText,
                                         !.pendingUserMessage = FALSE]
                  ELSE OnLines([read EXCEPT !.stream = st,
                                            !.streamingContent =
                                                IF st.fullContent # cs.stream.fullContent
                                                THEN st.fullContent ELSE @],
                               Tail(lines))

\* reader.read() delivers the next bytes of the body, up to MaxChunkLen of them,
\* and the loop body runs on that chunk.
ReadChunk ==
    /\ cpc = "reading"
    /\ wire # <<>>
    /\ \E n \in 1..MaxChunkLen :
        /\ n <= Len(wire)
        /\ LET cs == OnLines(PageState, SplitLines(SubSeq(wire, 1, n)))
           IN  /\ stream' = cs.stream
               /\ isLoading' = cs.isLoading
               /\ streamingContent' = cs.streamingContent
               /\ pendingUserMessage' = cs.pendingUserMessage
               /\ reloaded' = cs.reloaded
               /\ cread' = cs.cread
               /\ cpc' = cs.pc
        /\ wire' = SubSeq(wire, n + 1, Len(wire))
    /\ UNCHANGED <<ver, protocol, reqs, reqMessage, logVars, serverVars, abortRef, seenAtStop>>

\* reader.read() reports done after the last byte.
ChunkStreamDone ==
    /\ cpc = "reading"
    /\ wire = <<>>
    /\ cpc' = "returned"
    /\ UNCHANGED <<ver, protocol, reqs, wire, reqMessage, logVars, serverVars, cread, stream,
                   isLoading, streamingContent, pendingUserMessage, abortRef, reloaded,
                   seenAtStop>>

\* ---------------------------------------------------------------- reader: readJsonlFile
\* A line of a log file: blank, text that JSON.parse rejects, or a JSON record.
\* `ckind` tells what entry.message.content is: an array, a string or absent.
BlankLine == [line |-> "blank"]
GarbageLine == [line |-> "garbage"]
\* The point of a file at which the read stream fails: at the start of a file
\* that is missing or may not be opened, later for a read that fails part-way.
ReadFailure == [line |-> "error"]
JsonLine(type, uuid, ts, sid, ckind, content) ==
    [line |-> "json", type |-> type, uuid |-> uuid, timestamp |-> ts, sessionId |-> sid,
     ckind |-> ckind, content |-> content]

LogText(t) == [type |-> "text", text |-> t]
LogTool(name, id, input) == [type |-> "tool_use", name |-> name, id |-> id, input |-> input]
LogThinking == [type |-> "thinking"]

AssistantContents ==
    { <<LogText(<<"a">>)>>,
      <<LogTool("Read", "t1", "in1")>>,
      <<LogText(<<"a">>), LogTool("Read", "t1", "in1")>>,
      <<LogThinking, LogText(<<"b">>)>>,
      <<LogText(<<"a">>), LogThinking, LogTool("Read", "t1", "in1")>> }

LogLines ==
    {BlankLine, GarbageLine}
    \cup {JsonLine("summary", "u0", 1, sid, "none", <<>>) : sid \in {"s1", Undefined}}
    \cup {JsonLine("user", "u1", 2, sid, "string", <<"h">>) : sid \in {"s1", Undefined}}
    \cup {JsonLine("assistant", "u2", 3, "s1", "array", c) : c \in AssistantContents}

LogFiles == UNION {[1..n -> LogLines] : n \in 0..MaxLines}

\* One entry of message.content as a content block of the transcript, Null if
\* it is neither text nor tool_use.
BlockOf(block) ==
    IF block.type = "text" THEN [type |-> "text", content |-> block.text]
    ELSE IF block.type = "tool_use"
         THEN [type |-> "tool", tool |-> block.name, toolUseId |-> block.id,
               input |-> block.input]
    ELSE Null

NotNull(b) == b # Null

\* The kept blocks in the opposite order (unshift instead of push).
ContentBlocksOfReversed(content) ==
    LET kept == SelectSeq([k \in 1..Len(content) |-> BlockOf(content[k])], NotNull)
    IN  [k \in 1..Len(kept) |-> kept[Len(kept) + 1 - k]]

\* .map(...).filter(Boolean)
ContentBlocksOf(content) ==
    SelectSeq([k \in 1..Len(content) |-> BlockOf(content[k])], NotNull)

IsTextEntry(block) == block.type = "text"

\* .filter(text).map(block.text).join('\n')
RECURSIVE JoinText(_)
JoinText(blocks) ==
    IF blocks = <<>> THEN NoText
    ELSE IF Len(blocks) = 1 THEN blocks[1].text
    ELSE blocks[1].text \o <<"\n">> \o JoinText(Tail(blocks))

\* The message with a generated id (uuidv4()) in place of entry.uuid: an id
\* generated by one request differs from one generated by another.
MessageOfFreshId(entry) ==
    [id |-> IF prevRead = Null THEN "generated-1" ELSE "generated-2",
     role |-> IF entry.type = "user" THEN "user" ELSE "assistant",
     content |-> IF entry.ckind = "array" THEN JoinText(SelectSeq(entry.content, IsTextEntry))
                 ELSE IF entry.ckind = "string" THEN entry.content
                 ELSE NoText,
     contentBlocks |-> IF entry.ckind = "array" THEN ContentBlocksOf(entry.content) ELSE <<>>,
     timestamp |-> entry.timestamp]

\* The message pushed for a user or assistant record.  An empty contentBlocks
\* stands for `undefined` (the code stores undefined when the array is empty).
MessageOf(entry) ==
    [id |-> entry.uuid,
     role |-> IF entry.type = "user" THEN "user" ELSE "assistant",
     content |-> IF entry.ckind = "array" THEN JoinText(SelectSeq(entry.content, IsTextEntry))
                 ELSE IF entry.ckind = "string" THEN entry.content
                 ELSE NoText,
     contentBlocks |-> IF entry.ckind = "array" THEN ContentBlocksOf(entry.content) ELSE <<>>,
     timestamp |-> entry.timestamp]

InitReader == [lineNum |-> 0, firstEntry |-> Null, messages |-> <<>>]

\* rl.on('line') without the try/catch: a line JSON.parse rejects fails the read,
\* which resolves as {firstEntry: null, messages: []}.
OnLineRejecting(rd, line) ==
    IF line.line = "garbage"
    THEN [lineNum |-> rd.lineNum + 1, firstEntry |-> Null, messages |-> <<>>]
    ELSE IF line.line = "blank" THEN [rd EXCEPT !.lineNum = @ + 1]
    ELSE [lineNum |-> rd.lineNum + 1,
          firstEntry |-> IF rd.lineNum + 1 = 1 THEN line ELSE rd.firstEntry,
          messages |-> IF line.type \in {"user", "assistant"}
                       THEN Append(rd.messages, MessageOf(line)) ELSE rd.messages]

\* rl.on('line') taking the first record that parses as firstEntry, instead of
\* the record of line 1.
OnLineFirstParsed(rd, line) ==
    IF line.line # "json" THEN [rd EXCEPT !.lineNum = @ + 1]
    ELSE [lineNum |-> rd.lineNum + 1,
          firstEntry |-> IF rd.firstEntry = Null THEN line ELSE rd.firstEntry,
          messages |-> IF line.type \in {"user", "assistant"}
                       THEN Append(rd.messages, MessageOf(line)) ELSE rd.messages]

\* rl.on('line'): the locals after one line.
OnLine(rd, line) ==
    IF line.line # "json" THEN [rd EXCEPT !.lineNum = @ + 1]
    ELSE [lineNum |-> rd.lineNum + 1,
          firstEntry |-> IF rd.lineNum + 1 = 1 THEN line ELSE rd.firstEntry,
          messages |-> IF line.type \in {"user", "assistant"}
                       THEN Append(rd.messages, MessageOf(line)) ELSE rd.messages]

\* The file loop of /api/conversations: the conversation pushed for one file.
Listed(rd) == rd.firstEntry # Null /\ rd.firstEntry.sessionId # Undefined

ConversationOf(rd) ==
    [timestamp |-> rd.firstEntry.timestamp, messages |-> rd.messages,
     sessionId |-> rd.firstEntry.sessionId]

\* readJsonlFile(filePath) is called for a file.
OpenFile ==
    /\ rpc = "idle"
    /\ rpc' = "reading"
    /\ reader' = InitReader
    /\ UNCHANGED <<ver, protocol, reqs, wire, reqMessage, serverVars, clientVars, logFile, fileQueue, prevRead, conversations>>

ReadLine ==
    /\ rpc = "reading"
    /\ reader.lineNum < Len(logFile)
    /\ logFile[reader.lineNum + 1] # ReadFailure
    /\ reader' = OnLine(reader, logFile[reader.lineNum + 1])
    /\ UNCHANGED <<ver, protocol, reqs, wire, reqMessage, serverVars, clientVars, logFile, fileQueue, prevRead, rpc, conversations>>

\* rl.on('error'): the promise resolves with {firstEntry: null, messages: []}.
OnReadErrorKeeping(rd) == rd

OnReadError(rd) == [rd EXCEPT !.firstEntry = Null, !.messages = <<>>]

\* The read stream fails; readline passes the stream's 'error' on to rl.
ReadError ==
    /\ rpc = "reading"
    /\ reader.lineNum < Len(logFile)
    /\ logFile[reader.lineNum + 1] = ReadFailure
    /\ reader' = OnReadError(reader)
    /\ rpc' = "closed"
    /\ UNCHANGED <<ver, protocol, reqs, wire, reqMessage, serverVars, clientVars, logFile, fileQueue, prevRead, conversations>>

\* rl.on('close'): the promise resolves with {firstEntry, messages}.
CloseFile ==
    /\ rpc = "reading"
    /\ reader.lineNum = Len(logFile)
    /\ rpc' = "closed"
    /\ UNCHANGED <<ver, protocol, reqs, wire, reqMessage, serverVars, clientVars, logFile, fileQueue, prevRead, reader, conversations>>

\* seq with conversation c put after every entry the comparator does not order
\* after it (b.timestamp - a.timestamp <= 0 keeps a before b; the sort is stable).
InsertAscending(seq, c) ==
    LET before == {k \in 1..Len(seq) : seq[k].timestamp <= c.timestamp}
        n == Cardinality({k \in 1..Len(seq) : \A j \in 1..k : j \in before})
    IN  SubSeq(seq, 1, n) \o <<c>> \o SubSeq(seq, n + 1, Len(seq))

InsertDescending(seq, c) ==
    LET before == {k \in 1..Len(seq) : seq[k].timestamp >= c.timestamp}
        n == Cardinality({k \in 1..Len(seq) : \A j \in k..Len(seq) : j \notin before})
    IN  SubSeq(seq, 1, Len(seq) - n) \o <<c>> \o SubSeq(seq, Len(seq) - n + 1, Len(seq))

RECURSIVE SortedAscending(_)
\* conversations.sort((a, b) => a.timestamp - b.timestamp)
SortedAscending(seq) ==
    IF seq = <<>> THEN <<>>
    ELSE InsertAscending(SortedAscending(SubSeq(seq, 1, Len(seq) - 1)), seq[Len(seq)])

RECURSIVE SortedDescending(_)
\* conversations.sort((a, b) => b.timestamp - a.timestamp)
SortedDescending(seq) ==
    IF seq = <<>> THEN <<>>
    ELSE InsertDescending(SortedDescending(SubSeq(seq, 1, Len(seq) - 1)), seq[Len(seq)])

\* The body of the file loop after the await; after the last file the list is
\* sorted and sent.
ListFile ==
    /\ rpc = "closed"
    /\ LET pushed == IF Listed(reader)
                     THEN Append(conversations, ConversationOf(reader))
                     ELSE conversations
       IN  IF fileQueue = <<>>
           THEN /\ rpc' = "listed"
                /\ conversations' = SortedDescending(pushed)
                /\ UNCHANGED <<logFile, fileQueue>>
           ELSE /\ rpc' = "idle"
                /\ conversations' = pushed
                /\ logFile' = Head(fileQueue)
                /\ fileQueue' = Tail(fileQueue)
    /\ UNCHANGED <<ver, protocol, reqs, wire, reqMessage, serverVars, clientVars, reader, prevRead>>

\* A later request for the same, unchanged file: the endpoint starts again with
\* an empty list.
Reread ==
    /\ rpc = "listed"
    /\ prevRead = Null
    /\ prevRead' = [type |-> "read", firstEntry |-> reader.firstEntry,
                    messages |-> reader.messages, conversations |-> conversations]
    /\ rpc' = "idle"
    /\ conversations' = <<>>
    /\ UNCHANGED <<ver, protocol, reqs, wire, reqMessage, serverVars, clientVars, logFile, fileQueue, reader>>

LogIdle ==
    /\ logFile = <<>>
    /\ fileQueue = <<>>
    /\ rpc = "idle"
    /\ reader = InitReader
    /\ conversations = <<>>
    /\ prevRead = Null

NoRequests == reqs = [r \in Requests |-> InitLocals]

Init == ver = 1 /\ protocol = "any" /\ ServerInit /\ ClientInit("idle") /\ LogIdle /\ NoRequests

\* The request comes from a client that is not the page: nothing of the page runs.
InitServer ==
    ver = 1 /\ protocol = "any" /\ ServerInit /\ ClientInit("detached") /\ LogIdle /\ NoRequests
InitServer2 ==
    ver = 2 /\ protocol = "any" /\ ServerInit /\ ClientInit("detached") /\ LogIdle /\ NoRequests

\* Upstream keeps to its protocol and the page reads the whole response.
InitValid ==
    ver = 1 /\ protocol = "valid" /\ ServerInit /\ ClientInit("idle") /\ LogIdle /\ NoRequests

\* Any log file of at most MaxLines lines is read and listed.
InitLog ==
    /\ ver = 1 /\ protocol = "any" /\ ServerInit /\ ClientInit("idle") /\ NoRequests
    /\ logFile \in LogFiles
    /\ fileQueue = <<>>
    /\ rpc = "idle"
    /\ reader = InitReader
    /\ conversations = <<>>
    /\ prevRead = Null

\* The files of a project folder: each starts with a record that has a
\* timestamp, with or without a session id, or with a line that does not parse,
\* or cannot be read (from the start, or after its first record).
FolderFiles ==
    {<<JsonLine("user", "u1", t, sid, "string", <<"h">>)>> :
        t \in 1..3, sid \in {"s1", Undefined}}
    \cup {<<GarbageLine, JsonLine("user", "u1", 2, "s1", "string", <<"h">>)>>}
    \cup {<<ReadFailure>>,
          <<JsonLine("user", "u1", 2, "s1", "string", <<"h">>), ReadFailure>>}

\* A listing request over a folder of one to MaxFiles files, read in any order.
InitList ==
    /\ ver = 1 /\ protocol = "any" /\ ServerInit /\ ClientInit("idle") /\ NoRequests
    /\ logFile \in FolderFiles
    /\ fileQueue \in UNION {[1..n -> FolderFiles] : n \in 0..(MaxFiles - 1)}
    /\ rpc = "idle"
    /\ reader = InitReader
    /\ conversations = <<>>
    /\ prevRead = Null

\* Two requests of either version of the handler, served concurrently.
InitConc ==
    /\ ver \in Versions
    /\ protocol = "any" /\ ServerInit /\ ClientInit("detached") /\ LogIdle /\ NoRequests

NextConc ==
    \/ \E r \in Requests : ConcStart(r)
    \/ \E r \in Requests : ConcEvent(r)
    \/ \E r \in Requests : ConcEnd(r)
    \/ \E r \in Requests : ConcThrow(r)

NextValid ==
    \/ ChatStart
    \/ OnContentBlockStart
    \/ OnContentBlockDelta
    \/ OnContentBlockStop
    \/ OnOtherMessage
    \/ OnResult
    \/ SendMessage
    \/ ClientFrame
    \/ ClientStreamDone

NextLog ==
    \/ OpenFile
    \/ ReadLine
    \/ CloseFile
    \/ ListFile
    \/ Reread

NextList ==
    \/ OpenFile
    \/ ReadLine
    \/ ReadError
    \/ CloseFile
    \/ ListFile

NextServer ==
    \/ ChatStart
    \/ ChatThrowsBeforeTry
    \/ ChatInvalidMessage
    \/ OnMalformedEvent
    \/ OnContentBlockStart
    \/ OnContentBlockDelta
    \/ OnContentBlockStop
    \/ OnOtherMessage
    \/ OnResult
    \/ UpstreamEnd
    \/ UpstreamThrow

Next ==
    \/ ChatStart
    \/ OnMalformedEvent
    \/ OnContentBlockStart
    \/ OnContentBlockDelta
    \/ OnContentBlockStop
    \/ OnOtherMessage
    \/ OnResult
    \/ UpstreamEnd
    \/ UpstreamThrow
    \/ SendMessage
    \/ ClientFrame
    \/ ClientStreamDone
    \/ HandleStop

Spec == Init /\ [][Next]_vars

\* The /api/chat handler alone, first and second server file.
SpecServer == InitServer /\ [][NextServer]_vars
SpecServer2 == InitServer2 /\ [][NextServer]_vars

\* The page and the handler when upstream keeps to its protocol.
SpecValid == InitValid /\ [][NextValid]_vars

\* readJsonlFile and the file loop of /api/conversations on one file.
SpecLog == InitLog /\ [][NextLog]_vars

\* Two concurrent /api/chat requests, their upstream envelopes interleaved.
SpecConc == InitConc /\ [][NextConc]_vars

\* The file loop and the sort of /api/conversations over a folder.
SpecList == InitList /\ [][NextList]_vars

\* The frames of a finished response: up to MaxChunkFrames segment and session
\* frames, then a result frame, an error frame, or nothing.
ChunkFrames ==
    {SessionFrame("s1"), TextBlockStartFrame(0), TextFrame(<<"a">>, 0),
     TextBlockEndFrame(0)}
    \cup {ToolUseFrame(e) : e \in {m \in StartToolEvents : m.index = 1 /\ m.id = "t1"}}

TerminalFrames ==
    {ErrorFrame}
    \cup {ResultFrame(e) : e \in {m \in ResultEvents : m.subtype = "success" /\ ~m.is_error}}

ChunkResponses ==
    {body \o term :
        body \in UNION {[1..n -> ChunkFrames] : n \in 0..MaxChunkFrames},
        term \in {<<>>} \cup {<<t>> : t \in TerminalFrames}}

\* The page is reading the body of a response the server has written and ended.
InitChunk ==
    /\ ver = 1 /\ protocol = "any" /\ NoRequests /\ LogIdle
    /\ spc = "ended"
    /\ frames \in ChunkResponses
    /\ wire = Comment \o WireOf(frames)
    /\ messageCount = 0
    /\ currentSessionId = Undefined
    /\ currentTextBlock = NoText
    /\ textBlockIndex = 0
    /\ fullResponse = NoText
    /\ endedBy = "none"
    /\ upBlocks = <<>>
    /\ upText = [i \in Indices |-> NoText]
    /\ upSession = Null
    /\ upResult = Null
    /\ upMalformed = 0
    /\ reqMessage = "string"
    /\ cpc = "reading"
    /\ cread = 0
    /\ stream = InitStream
    /\ isLoading = TRUE
    /\ streamingContent = NoText
    /\ pendingUserMessage = TRUE
    /\ abortRef = TRUE
    /\ reloaded = FALSE
    /\ seenAtStop = <<>>

NextChunk ==
    \/ ReadChunk
    \/ ChunkStreamDone

\* The read loop of the page on a response body cut into chunks in any way.
SpecChunk == InitChunk /\ [][NextChunk]_vars

\* ================================================================ properties
Last(seq) == seq[Len(seq)]

\* A frame that reports a failed turn of the given kind.
IsFailureOfKind(f, kind) ==
    /\ f.done
    /\ \/ f.type = "error" /\ f.error = kind
       \/ f.type = "result" /\ f.isError /\ "subtype" \in DOMAIN f /\ f.subtype = kind

DoneFrames == {k \in 1..Len(frames) : frames[k].done}

\* ---------------------------------------------------------------- C1
\* C1: of the frames written for one request, every frame before the last has
\* done=false, and once the transport is ended exactly one frame, the last one,
\* has done=true, however the upstream sequence ended.
C1_ExactlyOneTerminalFrame ==
    /\ \A k \in 1..(Len(frames) - 1) : ~frames[k].done
    /\ spc = "ended" => frames # <<>> /\ Last(frames).done

\* ---------------------------------------------------------------- C2
\* C2: when the upstream sequence ends without a result, the last frame written
\* before the transport is ended reports a failed turn of kind StreamTruncated.
C2_TruncationIsSealed ==
    (spc = "ended" /\ endedBy = "exhausted") =>
        frames # <<>> /\ IsFailureOfKind(Last(frames), "StreamTruncated")

\* ---------------------------------------------------------------- C3
IsPrefix(s, t) == Len(s) <= Len(t) /\ SubSeq(t, 1, Len(s)) = s

IsFragment(x) == <<x>> \in Frags

\* The text fragments the page holds, tool markers left out.
PageText == SelectSeq(stream.fullContent, IsFragment)

\* The stop came after one text delta of upstream and before a later one.
CancelledBetweenDeltas ==
    /\ cpc = "aborted"
    /\ seenAtStop # NoText
    /\ Len(fullResponse) > Len(seenAtStop)

\* C3: a turn cancelled between two deltas gets exactly one terminal frame, that
\* frame says Cancelled, and the page's transcript holds only text upstream
\* sent before the stop.
C3_CancelledTurnIsSealedOnce ==
    (CancelledBetweenDeltas /\ spc = "ended") =>
        /\ Cardinality(DoneFrames) = 1
        /\ IsFailureOfKind(Last(frames), "Cancelled")
        /\ IsPrefix(PageText, seenAtStop)

\* ---------------------------------------------------------------- C4
\* The turn failed: upstream was truncated, threw, or gave an error result.
FailedTurn ==
    /\ spc = "ended"
    /\ \/ endedBy \in {"exhausted", "thrown"}
       \/ endedBy = "result" /\ Last(frames).isError

\* C4: after a failed turn during which text arrived, the page, once it has read
\* the whole response, still shows everything it received and no longer shows
\* the turn as in progress (the page has no other failure state).
C4_FailedTurnKeepsPartialOutput ==
    (cpc = "returned" /\ FailedTurn /\ stream.fullContent # NoText) =>
        /\ streamingContent = stream.fullContent
        /\ ~isLoading

\* ---------------------------------------------------------------- C5
\* The assistant record upstream persists for the turn: one content entry per
\* block, in the order of first open, text blocks with their whole text.
PersistedRecord(blocks) ==
    JsonLine("assistant", "u2", 3, "s1", "array",
             [k \in 1..Len(blocks) |->
                 IF blocks[k].kind = "text" THEN LogText(blocks[k].text)
                 ELSE LogTool(blocks[k].name, blocks[k].id, blocks[k].input)])

LogSegments == MessageOf(PersistedRecord(upBlocks)).contentBlocks
LiveSegments == stream.contentBlocks

SameSegment(live, logged) ==
    /\ live.type = logged.type
    /\ live.type = "text" => live.content = logged.content
    /\ live.type = "tool" =>
         /\ live.tool = logged.tool
         /\ live.toolUseId = logged.toolUseId
         /\ "input" \in DOMAIN live
         /\ live.input = logged.input

TurnCompleted == cpc = "returned" /\ endedBy = "result"

\* C5: when a turn of a protocol-keeping upstream is complete, the segments the
\* page assembled from the frames equal, one by one and in order, the segments
\* the log reader makes of the persisted assistant record.
C5_RoundTrip ==
    TurnCompleted =>
        /\ Len(LiveSegments) = Len(LogSegments)
        /\ \A k \in 1..Len(LiveSegments) : SameSegment(LiveSegments[k], LogSegments[k])

\* ---------------------------------------------------------------- C6
IsRecordLine(line) == line.line = "json" /\ line.type \in {"user", "assistant"}

\* The messages of the user and assistant records of a file, in line order.
RecordMessages(file) ==
    LET recs == SelectSeq(file, IsRecordLine)
    IN  [k \in 1..Len(recs) |-> MessageOf(recs[k])]

FirstLineHasSession(file) ==
    /\ Len(file) >= 1
    /\ file[1].line = "json"
    /\ file[1].sessionId # Undefined

IsToolFrame(f) == f.type = "tool_use"
IsToolBlock(b) == b.kind = "tool_use"
ToolFrames == SelectSeq(frames, IsToolFrame)
ToolBlocks == SelectSeq(upBlocks, IsToolBlock)

HasSlot(f) == f.type \in {"text_block_start", "text", "tool_use", "text_block_end"}

\* The frames of slot i written after position p.
SlotFramesAfter(p, i) ==
    LET OfSlot(f) == HasSlot(f) /\ f.blockIndex = i
    IN  SelectSeq(SubSeq(frames, p + 1, Len(frames)), OfSlot)

\* Position in frames of the n-th tool_use frame.
ToolFramePos(n) ==
    CHOOSE p \in 1..Len(frames) :
        /\ IsToolFrame(frames[p])
        /\ Cardinality({q \in 1..p : IsToolFrame(frames[q])}) = n

\* C8: for every tool block upstream has opened and stopped, the frames of its
\* slot after the tool_use frame begin with the one text_block_end of the block:
\* no text frame comes before it and no second text_block_end follows it.
C8_ToolOpenThenOneClose ==
    \A n \in 1..Len(ToolBlocks) :
        (Len(ToolFrames) >= n /\ ~ToolBlocks[n].open) =>
            LET after == SlotFramesAfter(ToolFramePos(n), ToolBlocks[n].index)
            IN  /\ after # <<>>
                /\ after[1].type = "text_block_end"
                /\ Len(after) > 1 => after[2].type # "text_block_end"

\* ---------------------------------------------------------------- C9
SegmentType(b) == IF b.kind = "text" THEN "text" ELSE "tool"

\* C9: when upstream opened one text and one tool segment and the page holds
\* both, the page lists them in the order in which upstream opened them.
C9_FirstOpenOrder ==
    ( /\ TurnCompleted
      /\ Len(upBlocks) = 2
      /\ upBlocks[1].kind # upBlocks[2].kind
      /\ Len(LiveSegments) = 2 ) =>
        /\ LiveSegments[1].type = SegmentType(upBlocks[1])
        /\ LiveSegments[2].type = SegmentType(upBlocks[2])

\* ---------------------------------------------------------------- C10
RECURSIVE ConcatText(_, _)
\* The content of the text frames of slot i, concatenated in emission order.
ConcatText(fs, i) ==
    IF fs = <<>> THEN NoText
    ELSE (IF fs[1].type = "text" /\ fs[1].blockIndex = i THEN fs[1].content ELSE NoText)
         \o ConcatText(Tail(fs), i)

IsResultFrame(f) == f.type = "result"
ResultFrames == SelectSeq(frames, IsResultFrame)

\* C11: once upstream has yielded a result message, the transport is ended and
\* the last frame is the only result frame; it has done=true, carries is_error,
\* num_turns, total_cost_usd and duration_ms of the message unchanged, and has
\* the result string exactly when the subtype is success, the errors and the
\* subtype exactly when it is not.  Before that no result frame is written.
C11_ResultFrameCarriesOutcome ==
    IF upResult = Null THEN ResultFrames = <<>>
    ELSE /\ spc = "ended"
         /\ endedBy = "result"
         /\ Len(ResultFrames) = 1
         /\ Last(frames) = ResultFrames[1]
         /\ LET r == Last(frames) IN
            /\ r.done
            /\ r.isError = upResult.is_error
            /\ r.numTurns = upResult.num_turns
            /\ r.totalCostUsd = upResult.total_cost_usd
            /\ r.durationMs = upResult.duration_ms
            /\ IF upResult.subtype = "success"
               THEN /\ DOMAIN r \cap {"result", "errors", "subtype"} = {"result"}
                    /\ r.result = upResult.result
               ELSE /\ DOMAIN r \cap {"result", "errors", "subtype"} = {"errors", "subtype"}
                    /\ r.errors = upResult.errors
                    /\ r.subtype = upResult.subtype

\* A result with an error outcome has been written after other frames.
C11_Witness ==
    /\ upResult # Null
    /\ upResult.subtype = "error_max_turns"
    /\ Len(frames) >= 3
    /\ Last(frames).type = "result"
    /\ Last(frames).subtype = "error_max_turns"

\* ---------------------------------------------------------------- C12
SessionFramePositions == {k \in 1..Len(frames) : frames[k].type = "session_id"}

\* C12: no session_id frame is written before an envelope carries a session id;
\* afterwards there is exactly one, it is the first frame written for the first
\* envelope that carried one, and it has that envelope's session id, whatever
\* session ids later envelopes carry.
C12_SessionFrameOnce ==
    IF upSession = Null THEN SessionFramePositions = {}
    ELSE /\ SessionFramePositions = {upSession.before + 1}
         /\ frames[upSession.before + 1].sessionId = upSession.sid
         /\ currentSessionId = upSession.sid

\* The first session id came after a frame was written, and the result message
\* that ended the turn carried a different one.
C12_Witness ==
    /\ upSession # Null
    /\ upSession.before >= 1
    /\ upSession.sid = "s1"
    /\ upResult # Null
    /\ upResult.session_id = "s2"

\* ---------------------------------------------------------------- C13
\* C13: when the listing is complete, every entry's timestamp is greater than
\* or equal to that of the entry after it, in whatever order the files were read.
C13_ListSortedNewestFirst ==
    rpc = "listed" =>
        \A k \in 1..(Len(conversations) - 1) :
            conversations[k].timestamp >= conversations[k + 1].timestamp

\* Three files were listed and the one read last is not the oldest.
C13_Witness ==
    /\ rpc = "listed"
    /\ Len(conversations) = 3
    /\ conversations[1].timestamp = 3
    /\ conversations[2].timestamp = 2
    /\ conversations[3].timestamp = 1
    /\ logFile[1].timestamp = 2

\* ---------------------------------------------------------------- C14
\* The j-th smallest element of a set of positions.
NthOf(S, j) == CHOOSE p \in S : Cardinality({q \in S : q <= p}) = j

RecordPositions(file) == {p \in 1..Len(file) : IsRecordLine(file[p])}
KeptPositions(content) ==
    {p \in 1..Len(content) : content[p].type \in {"text", "tool_use"}}

SegmentOfEntry(seg, e) ==
    IF e.type = "text" THEN seg.type = "text" /\ seg.content = e.text
    ELSE /\ seg.type = "tool"
         /\ seg.tool = e.name
         /\ seg.toolUseId = e.id
         /\ seg.input = e.input

\* C14: when a file has been read, the j-th message is that of the j-th user or
\* assistant line of the file, and the i-th segment of a message is that of the
\* i-th text or tool_use entry of the line's message.content; entries of other
\* types have no segment.
C14_LineAndEntryOrder ==
    rpc \in {"closed", "listed"} =>
        LET rp == RecordPositions(logFile) IN
        /\ Len(reader.messages) = Cardinality(rp)
        /\ \A j \in 1..Len(reader.messages) :
              LET line == logFile[NthOf(rp, j)]
                  msg == reader.messages[j]
                  kp == IF line.ckind = "array" THEN KeptPositions(line.content) ELSE {}
              IN  /\ msg.id = line.uuid
                  /\ msg.role = line.type
                  /\ Len(msg.contentBlocks) = Cardinality(kp)
                  /\ \A i \in 1..Len(msg.contentBlocks) :
                        SegmentOfEntry(msg.contentBlocks[i], line.content[NthOf(kp, i)])

\* A user line after an assistant line whose content has an entry of another
\* type between a text and a tool_use entry.
C14_Witness ==
    /\ rpc = "closed"
    /\ Len(logFile) = 3
    /\ logFile[2].line = "json" /\ logFile[2].type = "assistant"
    /\ logFile[2].content = <<LogText(<<"a">>), LogThinking, LogTool("Read", "t1", "in1")>>
    /\ logFile[3].line = "json" /\ logFile[3].type = "user"
    /\ Len(reader.messages) = 2
    /\ reader.messages[2].role = "user"
    /\ Len(reader.messages[1].contentBlocks) = 2
    /\ reader.messages[1].contentBlocks[2].type = "tool"

RECURSIVE RunAlone(_, _)
\* The locals of a request that is served alone and whose query yields events.
RunAlone(v, events) ==
    IF events = <<>> THEN InitLocals
    ELSE HandlerStep(v, RunAlone(v, SubSeq(events, 1, Len(events) - 1)),
                     events[Len(events)])

FramesAlone(v, rq) ==
    RunAlone(v, rq.fed).frames
    \o (IF rq.endedBy = "thrown" THEN <<ErrorFrame>> ELSE <<>>)

\* Frame f carries only a session id, text or tool id that events contain.
FrameFromOwnUpstream(f, events) ==
    /\ f.type = "session_id" => \E k \in 1..Len(events) : events[k].session_id = f.sessionId
    /\ f.type = "text" => \E k \in 1..Len(events) : events[k].text = f.content
    /\ f.type = "tool_use" =>
          \E k \in 1..Len(events) : events[k].id = f.toolUseId /\ events[k].name = f.tool

C17_NoExceptionEscapes ==
    /\ spc # "threw"
    /\ endedBy = "thrown" => (spc = "ended" /\ frames # <<>> /\ Last(frames).done)

\* ---------------------------------------------------------------- C18
\* C18: the step that takes a malformed stream event leaves the handler in its
\* loop and writes no terminal frame.
C18_MalformedEventIsContained ==
    [][upMalformed' # upMalformed =>
          /\ spc' = "streaming"
          /\ \A k \in (Len(frames) + 1)..Len(frames') : ~frames'[k].done]_vars

\* ---------------------------------------------------------------- C19
\* C19: the step that takes a text delta for a slot with no open segment leaves
\* the handler in its loop and adds no text frame for that slot.
C19_DeltaWithoutOpenIsRejected ==
    [][\A i \in Indices :
          (upText'[i] # upText[i] /\ OpenPos(upBlocks, i) = 0) =>
              /\ spc' = "streaming"
              /\ ConcatText(frames', i) = ConcatText(frames, i)]_vars

\* ---------------------------------------------------------------- C20
IsOpenFrame(f) == f.type \in {"text_block_start", "tool_use"}

\* C20: between two open frames (text_block_start or tool_use) of the same
\* blockIndex there is a text_block_end frame of that blockIndex.
C20_OneOpenSegmentPerSlot ==
    \A p \in 1..Len(frames) : \A q \in (p + 1)..Len(frames) :
        ( /\ IsOpenFrame(frames[p])
          /\ IsOpenFrame(frames[q])
          /\ frames[p].blockIndex = frames[q].blockIndex ) =>
            \E n \in (p + 1)..(q - 1) :
                frames[n] = TextBlockEndFrame(frames[p].blockIndex)

\* ---------------------------------------------------------------- C21
\* C21: while a text segment is open, the text accumulated for it is exactly the
\* fragments upstream sent for its slot since it was opened, in the server's
\* buffer and in the page's current text alike: events of other slots neither
\* reset it nor get mixed into it.
C21_OpenTextOnlyGrows ==
    \A i \in Indices :
        LET p == OpenPos(upBlocks, i) IN
        (spc = "streaming" /\ p # 0 /\ upBlocks[p].kind = "text") =>
            /\ textBlockIndex = i => currentTextBlock = upBlocks[p].text
            /\ ( /\ cpc = "reading"
                 /\ cread = Len(frames)
                 /\ stream.currentBlockIndex = i ) =>
                   stream.currentTextContent = upBlocks[p].text

\* ---------------------------------------------------------------- C22
\* C22: in a turn sealed by the result, every open frame (text_block_start or
\* tool_use) is followed by a text_block_end frame of its blockIndex that comes
\* before the result frame.
C22_ResultClosesOpenSlots ==
    endedBy = "result" =>
        \A p \in 1..Len(frames) :
            IsOpenFrame(frames[p]) =>
                \E q \in (p + 1)..(Len(frames) - 1) :
                    frames[q] = TextBlockEndFrame(frames[p].blockIndex)

\* ---------------------------------------------------------------- C23
\* C23: once the result envelope has been received the turn is over: no further
\* envelope is consumed and no further frame is written.
C23_NothingAfterResult ==
    [][upResult # Null =>
          /\ messageCount' = messageCount
          /\ frames' = frames
          /\ spc' = "ended"]_vars

\* A result was received as the second envelope, after a text segment was
\* opened, with room for more envelopes, and it is the last frame.
C23_Witness ==
    /\ upResult # Null
    /\ spc = "ended"
    /\ messageCount = 2
    /\ messageCount < Budget
    /\ \E k \in 1..Len(upBlocks) : upBlocks[k].open
    /\ Last(frames) = ResultFrame(upResult)

\* ---------------------------------------------------------------- C24
IsSegmentFrame(f) ==
    f.type \in {"text_block_start", "text", "tool_use", "text_block_end"}

\* C24: in a frame sequence that contains a session_id frame, no segment frame
\* (text_block_start, text, tool_use, text_block_end) comes before it.
C24_SessionFramePrecedesSegments ==
    \A p \in SessionFramePositions :
        \A q \in 1..(p - 1) : ~IsSegmentFrame(frames[q])

\* ---------------------------------------------------------------- C25
\* C25: once the page has aborted a request that the server is streaming, the
\* server takes at most one more upstream envelope: the reply text it has
\* accumulated is at most one fragment longer than it was at the abort.
C25_AbortStopsTheTurn ==
    (cpc = "aborted" /\ seenAtStop # NoText) =>
        Len(fullResponse) <= Len(seenAtStop) + 1

\* ---------------------------------------------------------------- C26
\* The read stream of the file never fails.
Readable(file) == \A k \in 1..Len(file) : file[k] # ReadFailure

Count(seq, c) == Cardinality({k \in 1..Len(seq) : seq[k] = c})

\* C26: when the read of one file of a listing scan has settled, the scan goes
\* on to the next file (or to the sorted answer after the last one); every
\* conversation listed so far stays listed; and the list gains one conversation,
\* that of this file, exactly when the file was read without failure and its
\* first line carries a session id. A file whose read failed adds nothing and
\* takes nothing away.
C26_UnreadableFileIsOmitted ==
    [][(rpc = "closed" /\ rpc' # "closed") =>
          LET own == Readable(logFile) /\ FirstLineHasSession(logFile)
              c == [timestamp |-> logFile[1].timestamp,
                    messages |-> RecordMessages(logFile),
                    sessionId |-> logFile[1].sessionId]
          IN  /\ rpc' = IF fileQueue = <<>> THEN "listed" ELSE "idle"
              /\ Len(conversations') = Len(conversations) + IF own THEN 1 ELSE 0
              /\ \A k \in 1..Len(conversations) :
                    Count(conversations', conversations[k])
                        >= Count(conversations, conversations[k])
              /\ own => Count(conversations', c) = Count(conversations, c) + 1]_vars

\* A scan whose last file could not be read answers with the conversations of
\* the files before it.
C26_Witness ==
    /\ rpc = "listed"
    /\ ~Readable(logFile)
    /\ reader.firstEntry = Null
    /\ Len(conversations) >= 2

\* ---------------------------------------------------------------- C27
\* C27: when the response stream has ended and the page has finished reading it,
\* whatever frames it carried, the page is no longer loading and holds neither
\* a pending user message nor streaming content.
C27_ClientLeavesLoading ==
    cpc = "returned" =>
        /\ ~isLoading
        /\ ~pendingUserMessage
        /\ streamingContent = NoText

\* ---------------------------------------------------------------- C30
\* C30: a chat request whose message is absent, empty or not a string is
\* answered with status 400 'Invalid message': the handler has not thrown, no
\* event stream was opened and no upstream query was started.
C30_InvalidMessageGets400 ==
    reqMessage \in {"undefined", "empty", "number"} =>
        /\ spc = "rejected"
        /\ frames = <<>>
        /\ messageCount = 0

\* ---------------------------------------------------------------- C29
\* C29: a file that has been read is listed exactly when its first physical line
\* is a JSON record with a session id (a blank or unparsable first line, or a
\* first record without session id, omits the file whatever follows), and the
\* listed conversation takes its session id and timestamp from that line.
C29_FirstLineDecidesListing ==
    rpc = "listed" =>
        /\ (conversations # <<>>) <=> FirstLineHasSession(logFile)
        /\ conversations # <<>> =>
              /\ Len(conversations) = 1
              /\ conversations[1].sessionId = logFile[1].sessionId
              /\ conversations[1].timestamp = logFile[1].timestamp

\* A file whose first line is blank or does not parse, followed by two records
\* that carry a session id, was read to the end and is not listed.
C29_Witness ==
    /\ rpc = "listed"
    /\ conversations = <<>>
    /\ Len(logFile) = 3
    /\ logFile[1] \in {BlankLine, GarbageLine}
    /\ \A k \in 2..3 : IsRecordLine(logFile[k]) /\ logFile[k].sessionId = "s1"
    /\ Len(reader.messages) = 2

\* ---------------------------------------------------------------- C28
RECURSIVE RunChunks(_, _)
\* The page state after the given chunks, read one after the other.
RunChunks(cs, chunks) ==
    IF chunks = <<>> \/ cs.pc # "reading" THEN cs
    ELSE RunChunks(OnLines(cs, SplitLines(Head(chunks))), Tail(chunks))

\* The body delivered with one frame in each chunk.
OneFramePerChunk == <<Comment>> \o [k \in 1..Len(frames) |-> Wire(frames[k])]

InitPage ==
    [stream |-> InitStream, isLoading |-> TRUE, streamingContent |-> NoText,
     pendingUserMessage |-> TRUE, reloaded |-> FALSE, cread |-> 0, pc |-> "reading"]

\* C28: however the body was cut into chunks, when the page has finished with
\* it every frame was parsed once and the transcript and the page state are
\* those of the delivery with one frame per chunk.
C28_ChunkingDoesNotMatter ==
    cpc \in {"returned", "caught"} =>
        [PageState EXCEPT !.pc = "done"]
            = [RunChunks(InitPage, OneFramePerChunk) EXCEPT !.pc = "done"]

====
